---- MODULE Spec2Model ----
(***************************************************************************)
(* Plan generation of the LaravelService component (laravel-sst.ts) and    *)
(* the linked-resource environment mapper (laravel-env.ts).                *)
(*                                                                         *)
(* A JavaScript object is modelled as an insertion-ordered sequence of     *)
(* [key, value] pairs with unique keys, so that spread / Object.assign /   *)
(* Object.entries keep the order the code observes.  A text file is the    *)
(* sequence of its lines (content.split("\n")); the empty file is <<"">>.  *)
(* An optional boolean is one of "undefined", "true", "false".             *)
(***************************************************************************)
EXTENDS Integers, Sequences, FiniteSets, TLC

VARIABLES args, applySync, envSrc, pc, idx, overlay, services, workerFiles

\* the .dockerignore of the site, and the number of the plan generation
VARIABLES dockerIgnore, generation

\* the command line tool: its position, its options, the working directory,
\* the ECS side, the calls made so far and the two values it locates
VARIABLES cliPc, options, cwd, ecs, calls, clusterArn, matchingTask

\* the command that runs, the task definition ECS describes, the choices
\* select() shows, the operator's pick among them, and install's backup path
VARIABLES cliCommand, taskDef, choices, selection, backupPath

\* whether the package holds templates/sst.config.init.template
VARIABLES templateExists

componentVars ==
  <<args, applySync, envSrc, pc, idx, overlay, services, workerFiles,
    dockerIgnore, generation>>

\* what the ssh and logs commands are run with
cliInputs == <<cliCommand, options, cwd, ecs, taskDef, templateExists>>

cliVars ==
  <<cliPc, options, cwd, ecs, calls, clusterArn, matchingTask,
    cliCommand, taskDef, choices, selection, backupPath, templateExists>>

vars == <<componentVars, cliVars>>

(***************************************************************************)
(* Bounds of the checked inputs.                                           *)
(***************************************************************************)
MaxLinks == 2

MaxWorkers == 2

MaxClusters == 2

MaxTasks == 2

\* plan generations run one after the other over the same directories
MaxPlans == 2

Undefined == "undefined"

(***************************************************************************)
(* JavaScript objects as ordered maps.                                     *)
(***************************************************************************)
EmptyObject == << >>

Keys(obj) == {obj[i].key : i \in 1..Len(obj)}

Has(obj, k) == k \in Keys(obj)

Get(obj, k) == IF Has(obj, k)
               THEN obj[CHOOSE i \in 1..Len(obj) : obj[i].key = k].value
               ELSE Undefined

\* obj[k] = v : an existing key keeps its position, a new key goes last.
Put(obj, k, v) ==
  IF Has(obj, k)
  THEN [i \in 1..Len(obj) |-> IF obj[i].key = k THEN [key |-> k, value |-> v] ELSE obj[i]]
  ELSE Append(obj, [key |-> k, value |-> v])

\* { ...a, ...b } and Object.assign(a, b)
RECURSIVE Assign(_, _)
Assign(a, b) ==
  IF b = << >> THEN a
  ELSE Assign(Put(a, Head(b).key, Head(b).value), Tail(b))

Truthy(flag) == flag = "true"

(***************************************************************************)
(* Number.prototype.toString() for a non-negative integer.                 *)
(***************************************************************************)
Digit(d) == <<"0", "1", "2", "3", "4", "5", "6", "7", "8", "9">>[d + 1]

RECURSIVE NumberToString(_)
NumberToString(n) ==
  IF n < 10 THEN Digit(n) ELSE NumberToString(n \div 10) \o Digit(n % 10)

(***************************************************************************)
(* Linked resources: the attributes the mapper reads, already resolved.    *)
(***************************************************************************)
Resource(kind, host, port, database, username, password) ==
  [kind |-> kind, host |-> host, port |-> port, database |-> database,
   username |-> username, password |-> password,
   endpoint |-> Undefined, dbName |-> Undefined, url |-> Undefined, name |-> Undefined]

Pg == Resource("Postgres", "db.local", 5432, "app", "u", "p")

PgReplica == Resource("Postgres", "replica.local", 5433, "app", "ro", "q")

My == Resource("Mysql", "mysql.local", 3306, "shop", "m", "mp")

AuroraPg == Resource("Aurora", "aurora-pg.local", 5432, "app", "au", "ap")

AuroraMy == Resource("Aurora", "aurora-my.local", 3306, "app", "au", "ap")

RdsInstance ==
  [Resource("rds.Instance", Undefined, 3306, Undefined, "ru", "rp")
     EXCEPT !.endpoint = "rds.local:3306", !.dbName = "legacy"]

Rd == Resource("Redis", "cache.local", 6379, Undefined, Undefined, "s")

Em == Resource("Email", Undefined, 0, Undefined, Undefined, Undefined)

Qu == [Resource("Queue", Undefined, 0, Undefined, Undefined, Undefined)
         EXCEPT !.url = "https://sqs.local/jobs"]

Bk == [Resource("Bucket", Undefined, 0, Undefined, Undefined, Undefined)
         EXCEPT !.name = "uploads"]

\* a linkable resource the mapper has no rule for
Fn == [Resource("Function", Undefined, 0, Undefined, Undefined, Undefined)
         EXCEPT !.name = "resize"]

Resources == {Pg, PgReplica, My, AuroraPg, AuroraMy, RdsInstance, Rd, Em, Qu, Bk, Fn}

(***************************************************************************)
(* laravel-env.ts                                                          *)
(***************************************************************************)
\* variant: the host is read from the attribute the rds.Instance shape uses
applyPostgresEnvFromEndpoint(database) ==
  << [key |-> "DB_CONNECTION", value |-> "pgsql"],
     [key |-> "DB_HOST", value |-> database.endpoint],
     [key |-> "DB_DATABASE", value |-> database.database],
     [key |-> "DB_USERNAME", value |-> database.username],
     [key |-> "DB_PASSWORD", value |-> database.password],
     [key |-> "DB_PORT", value |-> NumberToString(database.port)] >>

applyPostgresEnv(database) ==
  << [key |-> "DB_CONNECTION", value |-> "pgsql"],
     [key |-> "DB_HOST", value |-> database.host],
     [key |-> "DB_DATABASE", value |-> database.database],
     [key |-> "DB_USERNAME", value |-> database.username],
     [key |-> "DB_PASSWORD", value |-> database.password],
     [key |-> "DB_PORT", value |-> NumberToString(database.port)] >>

applyMySqlEnv(database) ==
  << [key |-> "DB_CONNECTION", value |-> "mysql"],
     [key |-> "DB_HOST",
      value |-> IF database.kind \in {"Aurora", "Mysql"} THEN database.host ELSE database.endpoint],
     [key |-> "DB_DATABASE",
      value |-> IF database.kind \in {"Aurora", "Mysql"} THEN database.database ELSE database.dbName],
     [key |-> "DB_USERNAME", value |-> database.username],
     [key |-> "DB_PASSWORD", value |-> database.password],
     [key |-> "DB_PORT", value |-> NumberToString(database.port)] >>

\* `let port; database.port.apply(value => port = value)`: the comparison
\* reads port before or after the callback ran (portRead = it already ran).
applyDatabaseEnv(database, portRead) ==
  IF database.kind = "Postgres" \/ (database.kind = "Aurora" /\ portRead /\ database.port = 5432)
  THEN applyPostgresEnv(database)
  ELSE IF \/ database.kind = "Mysql"
          \/ (database.kind = "Aurora" /\ portRead /\ database.port = 3306)
          \/ database.kind = "rds.Instance"
       THEN applyMySqlEnv(database)
       ELSE EmptyObject

applyRedisEnv(database) ==
  << [key |-> "REDIS_HOST",
      value |-> IF database.host # "" THEN "tls://" \o database.host ELSE ""],
     [key |-> "REDIS_PORT", value |-> NumberToString(database.port)],
     [key |-> "REDIS_PASSWORD", value |-> database.password] >>

applyEmailEnv(mail) == << [key |-> "MAIL_MAILER", value |-> "ses"] >>

applyQueueEnv(queue) == << [key |-> "SQS_QUEUE", value |-> queue.url] >>

applyBucketEnv(bucket) ==
  << [key |-> "FILESYSTEM_DISK", value |-> "s3"],
     [key |-> "AWS_BUCKET", value |-> bucket.name] >>

\* variant: a link that matched no class is handled as a bucket
applyLinkBucketFallback(environment, link, portRead) ==
  IF link.kind = "Postgres" THEN Assign(environment, applyDatabaseEnv(link, portRead))
  ELSE IF link.kind = "Redis" THEN Assign(environment, applyRedisEnv(link))
  ELSE IF link.kind = "Email" THEN Assign(environment, applyEmailEnv(link))
  ELSE IF link.kind = "Queue" THEN Assign(environment, applyQueueEnv(link))
  ELSE Assign(environment, applyBucketEnv(link))

\* one iteration of links.forEach: the instanceof chain (no callbacks are
\* passed by the component, so every `callbacks?.x` branch contributes {})
applyLink(environment, link, portRead) ==
  IF link.kind = "Postgres" THEN Assign(environment, applyDatabaseEnv(link, portRead))
  ELSE IF link.kind = "Redis" THEN Assign(environment, applyRedisEnv(link))
  ELSE IF link.kind = "Email" THEN Assign(environment, applyEmailEnv(link))
  ELSE IF link.kind = "Queue" THEN Assign(environment, applyQueueEnv(link))
  ELSE IF link.kind = "Bucket" THEN Assign(environment, applyBucketEnv(link))
  ELSE environment

RECURSIVE applyLinksFrom(_, _, _)
applyLinksFrom(environment, links, portRead) ==
  IF links = << >> THEN environment
  ELSE applyLinksFrom(applyLink(environment, Head(links), portRead), Tail(links), portRead)

applyLinkedResourcesEnv(links, portRead) == applyLinksFrom(EmptyObject, links, portRead)

(***************************************************************************)
(* laravel-sst.ts: the link list.  An entry is a bare resource or an       *)
(* object { resource, ... } that may carry a callback under the property   *)
(* `environment` (the declared and documented one) or `envCallback`.       *)
(***************************************************************************)
Bare(r) ==
  [shape |-> "resource", resource |-> r, environment |-> Undefined, envCallback |-> Undefined]

Binding(r, environment, envCallback) ==
  [shape |-> "object", resource |-> r, environment |-> environment, envCallback |-> envCallback]

\* The operator's callbacks: overrideHost replaces a default key,
\* customNames adds keys of its own (the README's example).
Callbacks == {"overrideHost", "customNames"}

CallbackResult(cb, r) ==
  IF cb = "overrideHost"
  THEN << [key |-> "DB_HOST", value |-> "proxy.local"] >>
  ELSE << [key |-> "CUSTOM_DB_HOST", value |-> r.host],
          [key |-> "CUSTOM_DB_NAME", value |-> r.database] >>

Links ==
  {Bare(r) : r \in Resources}
    \cup {Binding(Pg, Undefined, Undefined)}
    \cup {Binding(Pg, cb, Undefined) : cb \in Callbacks}
    \cup {Binding(Pg, Undefined, cb) : cb \in Callbacks}

SeqsUpTo(S, n) == UNION {[1..k -> S] : k \in 0..n}

LinkLists == SeqsUpTo(Links, MaxLinks)

\* `link && typeof link === 'object' && 'resource' in link`
IsBinding(link) == link.shape = "object"

\* getLinks(): the links in the original SST format
RECURSIVE getLinks(_)
getLinks(links) ==
  IF links = << >> THEN << >>
  ELSE <<Head(links).resource>> \o getLinks(Tail(links))

\* the callback property applyLinkedResourcesToEnvironment reads
linkCallback(link) == link.envCallback

\* customEnv after links.forEach
RECURSIVE customEnvFrom(_, _)
customEnvFrom(customEnv, links) ==
  IF links = << >> THEN customEnv
  ELSE LET link == Head(links)
           cb == linkCallback(link)
       IN customEnvFrom(
            IF IsBinding(link) /\ cb # Undefined
            THEN Assign(customEnv, CallbackResult(cb, link.resource))
            ELSE customEnv,
            Tail(links))

\* { ...applyLinkedResourcesEnv(resources), ...customEnv }
resourcesEnvVars(links, portRead) ==
  Assign(applyLinkedResourcesEnv(getLinks(links), portRead), customEnvFrom(EmptyObject, links))

\* entries.map(([key, value]) => `${key}=${value}`)
envLines(entries) == [i \in 1..Len(entries) |-> entries[i].key \o "=" \o entries[i].value]

\* fs.appendFileSync(envFile, '\n' + envContent) when envContent is not empty
appendEnv(file, entries) ==
  IF entries = << >> THEN file
  ELSE [exists |-> TRUE,
        lines |-> (IF file.exists THEN file.lines ELSE <<"">>) \o envLines(entries)]

applyLinkedResourcesToEnvironment(file, links, portRead) ==
  appendEnv(file, resourcesEnvVars(links, portRead))

\* `! args.config?.environment?.autoInject === false`, that is
\* (!autoInject) === false
autoInjectEnabled(autoInject) == (~Truthy(autoInject)) = FALSE

NoFile == [exists |-> FALSE, lines |-> << >>]

\* prepareEnvironmentFile(): the content of <build>/deploy/.env afterwards
prepareEnvironmentFile(file, a, src, portRead) ==
  IF a.config.environment.file = Undefined THEN file
  ELSE LET dst == IF src.exists THEN src ELSE [exists |-> TRUE, lines |-> <<"">>]
       IN IF autoInjectEnabled(a.config.environment.autoInject)
          THEN applyLinkedResourcesToEnvironment(dst, a.link, portRead)
          ELSE dst

\* `args.web?.domain` is truthy
HasDomain(a) == a.web.declared /\ a.web.domain.form # Undefined

\* getEnvironmentVariables(): the object it returns
getEnvironmentVariables(a) ==
  LET env == IF a.config.environment.vars.declared
             THEN a.config.environment.vars.obj ELSE EmptyObject
  IN IF HasDomain(a) /\ a.web.domain.form = "string"
     THEN Put(env, "APP_URL", "https://" \o a.web.domain.name)
     ELSE env

\* getEnvironmentVariables() writes APP_URL into the operator's vars object
\* itself when one is declared (env is that object, not a copy)
argsAfterGetEnvironmentVariables(a) ==
  IF a.config.environment.vars.declared
  THEN [a EXCEPT !.config.environment.vars.obj = getEnvironmentVariables(a)]
  ELSE a

getPhpVersion(a) == IF a.config.php = Undefined THEN "8.4" ELSE a.config.php

\* getDefaultImage(imageType, extraArgs).args
getDefaultImage(imageType, extraArgs, a) ==
  Assign(
    << [key |-> "PHP_VERSION", value |-> getPhpVersion(a)],
       [key |-> "PHP_OPCACHE_ENABLE", value |-> IF Truthy(a.config.opcache) THEN "1" ELSE "0"],
       [key |-> "AUTORUN_LARAVEL_MIGRATION", value |-> IF imageType = "web" THEN "true" ELSE "false"],
       [key |-> "CONTAINER_TYPE", value |-> imageType],
       [key |-> "ENV_FILENAME",
        value |-> IF a.config.environment.file = Undefined
                  THEN ".env" ELSE a.config.environment.file],
       [key |-> "stage", value |-> "deploy"],
       [key |-> "platform", value |-> "linux/amd64"] >>,
    extraArgs)

\* `lines.find((line) => line === wanted)` finds a line
HasLine(lines, wanted) == \E i \in 1..Len(lines) : lines[i] = wanted

\* getImage(): the .dockerignore afterwards.  Both tests read the lines as
\* they were before the call, and the second write starts from those lines
\* again.
getImage(file) ==
  IF ~file.exists THEN file
  ELSE LET lines == file.lines
           first == IF ~HasLine(lines, ".sst")
                    THEN lines \o <<"", "# sst", "!.sst/laravel">>
                    ELSE lines
       IN [exists |-> TRUE,
           lines |-> IF ~HasLine(lines, "!.sst/laravel")
                     THEN lines \o <<"", "# sst-laravel", "!.sst/laravel">>
                     ELSE first]

\* variant: the https listener is always there
getDefaultPublicPortsWithHttps(a) ==
  << [listen |-> "80/http", forward |-> "8080/http"],
     [listen |-> "443/https", forward |-> "8080/http"] >>

getDefaultPublicPorts(a) ==
  IF HasDomain(a)
  THEN << [listen |-> "80/http", forward |-> "8080/http"],
          [listen |-> "443/https", forward |-> "8080/http"] >>
  ELSE << [listen |-> "80/http", forward |-> "8080/http"] >>

(***************************************************************************)
(* Worker tasks (createWorkerTasks) and the services.                      *)
(***************************************************************************)
Task(command, dependencies) == [command |-> command, dependencies |-> dependencies]

\* the builtin flags write their task after the worker's own tasks were
\* spread into `tasks`
\* variant: the builtin is written only when the worker declared no task of
\* that name
withHorizonUnlessDeclared(tasks, workerConfig) ==
  IF Truthy(workerConfig.horizon) /\ ~Has(tasks, "laravel-horizon")
  THEN Put(tasks, "laravel-horizon", Task("php artisan horizon", << >>))
  ELSE tasks

withHorizon(tasks, workerConfig) ==
  IF Truthy(workerConfig.horizon)
  THEN Put(tasks, "laravel-horizon", Task("php artisan horizon", << >>))
  ELSE tasks

\* variant: the scheduler is made to start after horizon
withSchedulerAfterHorizon(tasks, workerConfig) ==
  IF Truthy(workerConfig.scheduler)
  THEN Put(tasks, "laravel-scheduler",
           Task("php artisan schedule:work", <<"laravel-horizon">>))
  ELSE tasks

withScheduler(tasks, workerConfig) ==
  IF Truthy(workerConfig.scheduler)
  THEN Put(tasks, "laravel-scheduler", Task("php artisan schedule:work", << >>))
  ELSE tasks

\* the `tasks` record of createWorkerTasks before it is written out
resolvedTasks(workerConfig) ==
  withScheduler(withHorizon(Assign(EmptyObject, workerConfig.tasks), workerConfig), workerConfig)

RECURSIVE Join(_, _)
Join(strings, sep) ==
  IF strings = << >> THEN ""
  ELSE IF Len(strings) = 1 THEN Head(strings)
  ELSE Head(strings) \o sep \o Join(Tail(strings), sep)

\* variant: only the first dependency is written
taskRecordFirstDependency(taskName, config) ==
  [script |-> "#!/command/with-contenv bash\ncd /var/www/html\n" \o config.command,
   run |-> "#!/command/execlineb -P\n/etc/s6-overlay/s6-rc.d/" \o taskName \o "/script",
   type |-> "longrun",
   dependencies |-> IF config.dependencies = << >> THEN "" ELSE Head(config.dependencies)]

\* the four files written under s6-rc.d/<taskName>
taskRecord(taskName, config) ==
  [script |-> "#!/command/with-contenv bash\ncd /var/www/html\n" \o config.command,
   run |-> "#!/command/execlineb -P\n/etc/s6-overlay/s6-rc.d/" \o taskName \o "/script",
   type |-> "longrun",
   dependencies |-> Join(config.dependencies, "\n")]

EmptyDir == [records |-> << >>, markers |-> {}]

\* variant: an autostart marker is written for the builtin tasks only
createWorkerTasksBuiltinMarkers(dir, workerConfig) ==
  LET tasks == resolvedTasks(workerConfig)
  IN [records |-> [n \in (DOMAIN dir.records) \cup Keys(tasks) |->
                     IF n \in Keys(tasks) THEN taskRecord(n, Get(tasks, n))
                     ELSE dir.records[n]],
      markers |-> dir.markers
                    \cup (Keys(tasks) \cap {"laravel-horizon", "laravel-scheduler"})]

\* createWorkerTasks(workerConfig, workerBuildPath): the build directory
\* afterwards; files already there are overwritten or left in place
createWorkerTasks(dir, workerConfig) ==
  LET tasks == resolvedTasks(workerConfig)
  IN [records |-> [n \in (DOMAIN dir.records) \cup Keys(tasks) |->
                     IF n \in Keys(tasks) THEN taskRecord(n, Get(tasks, n))
                     ELSE dir.records[n]],
      markers |-> dir.markers \cup Keys(tasks)]

ComponentName == "MyLaravelApp"

pluginBuildPath == "/.sst/laravel"

\* variant: the fallback counts from the 0-based index
workerNameFromIndex(workerConfig, index) ==
  IF workerConfig.name # Undefined /\ workerConfig.name # ""
  THEN workerConfig.name
  ELSE "worker-" \o NumberToString(index)

\* workerConfig.name || `worker-${index + 1}` (index is 0-based)
workerName(workerConfig, index) ==
  IF workerConfig.name # Undefined /\ workerConfig.name # ""
  THEN workerConfig.name
  ELSE "worker-" \o NumberToString(index + 1)

workerBuildPath(workerConfig, index) ==
  pluginBuildPath \o "/worker-" \o workerName(workerConfig, index)

dirAt(files, path) == IF path \in DOMAIN files THEN files[path] ELSE EmptyDir

addWebService(a) ==
  [name |-> ComponentName \o "-Web",
   link |-> getLinks(a.link),
   image |-> getDefaultImage("web", EmptyObject, a),
   environment |-> getEnvironmentVariables(a),
   loadBalancer |-> IF a.web.loadBalancer
                    THEN [custom |-> TRUE, ports |-> << >>]
                    ELSE [custom |-> FALSE, ports |-> getDefaultPublicPorts(a)]]

\* variant: a worker receives the declared vars without the APP_URL the
\* domain gives
createWorkerServiceDeclaredVars(a, workerConfig, index) ==
  [name |-> ComponentName \o "-" \o workerName(workerConfig, index),
   link |-> getLinks(a.link),
   image |-> getDefaultImage("worker",
               << [key |-> "CONF_PATH",
                   value |-> "/node_modules/@kirschbaum-development/sst-laravel/conf"],
                  [key |-> "CUSTOM_CONF_PATH", value |-> workerBuildPath(workerConfig, index)] >>,
               a),
   environment |-> IF a.config.environment.vars.declared
                   THEN a.config.environment.vars.obj ELSE EmptyObject,
   loadBalancer |-> [custom |-> FALSE, ports |-> << >>]]

createWorkerService(a, workerConfig, index) ==
  [name |-> ComponentName \o "-" \o workerName(workerConfig, index),
   link |-> getLinks(a.link),
   image |-> getDefaultImage("worker",
               << [key |-> "CONF_PATH",
                   value |-> "/node_modules/@kirschbaum-development/sst-laravel/conf"],
                  [key |-> "CUSTOM_CONF_PATH", value |-> workerBuildPath(workerConfig, index)] >>,
               a),
   environment |-> getEnvironmentVariables(a),
   loadBalancer |-> [custom |-> FALSE, ports |-> << >>]]

(***************************************************************************)
(* The operator's declarations (the inputs of a plan generation).          *)
(***************************************************************************)
OptionalBoolean == {Undefined, "true", "false"}

Vars(declared, obj) == [declared |-> declared, obj |-> obj]

VarsChoices ==
  { Vars(FALSE, EmptyObject),
    Vars(TRUE, EmptyObject),
    Vars(TRUE, << [key |-> "APP_URL", value |-> "http://localhost"],
                  [key |-> "SESSION_DRIVER", value |-> "redis"] >>),
    Vars(TRUE, << [key |-> "DB_HOST", value |-> "explicit.local"] >>) }

Domain(form, name) == [form |-> form, name |-> name]

Domains ==
  { Domain(Undefined, Undefined),
    Domain("string", "app.example.com"),
    Domain("object", "app.example.com") }

Web(declared, domain, loadBalancer) ==
  [declared |-> declared, domain |-> domain, loadBalancer |-> loadBalancer]

Config(opcache, file, autoInject, envVars) ==
  [php |-> Undefined, opcache |-> opcache,
   environment |-> [file |-> file, autoInject |-> autoInject, vars |-> envVars]]

Worker(name, horizon, scheduler, tasks) ==
  [name |-> name, horizon |-> horizon, scheduler |-> scheduler, tasks |-> tasks]

TaskObjects ==
  { EmptyObject,
    << [key |-> "laravel-horizon",
        value |-> Task("php artisan horizon --environment=production", <<"emails">>)],
       [key |-> "emails", value |-> Task("php artisan queue:work --queue=emails", << >>)] >>,
    << [key |-> "laravel-scheduler",
        value |-> Task("php artisan schedule:run --no-interaction", << >>)],
       [key |-> "reports",
        value |-> Task("php artisan reports:listen", <<"laravel-horizon", "missing-task">>)] >> }

WorkerConfigs ==
  { Worker(n, h, s, t) : n \in {Undefined, "queue"}, h \in {Undefined, "true"},
                         s \in {Undefined, "true"}, t \in TaskObjects }

\* workers that differ in their name only
NamedWorkers ==
  { Worker(n, "true", Undefined, EmptyObject) : n \in {Undefined, "queue", "worker-2"} }

Workers(declared, list) == [declared |-> declared, list |-> list]

Args(link, web, workers, config) ==
  [link |-> link, web |-> web, workers |-> workers, config |-> config]

EnvFiles ==
  { NoFile, [exists |-> TRUE, lines |-> <<"APP_NAME=Laravel", "DB_HOST=127.0.0.1">>] }

\* the .dockerignore the site has: none, one that ignores .sst or not, and
\* one that holds the exception already
DockerIgnores ==
  { NoFile,
    [exists |-> TRUE, lines |-> <<"node_modules", "vendor">>],
    [exists |-> TRUE, lines |-> <<"node_modules", ".sst", "vendor">>],
    [exists |-> TRUE, lines |-> <<".sst", "!.sst/laravel", "vendor">>] }

(***************************************************************************)
(* The command line tool (bin/): locating the ECS cluster and the task.    *)
(* A string the code searches or rewrites is the sequence of its           *)
(* characters; the empty string and an option that was not given are both  *)
(* << >>, which the code cannot tell apart (it tests them by truthiness).  *)
(***************************************************************************)
\* String.prototype.includes
Includes(s, sub) ==
  \E i \in 0..(Len(s) - Len(sub)) : SubSeq(s, i + 1, i + Len(sub)) = sub

\* s.split('/').pop()
LastSegment(s) ==
  LET slashes == {i \in 1..Len(s) : s[i] = "/"}
  IN IF slashes = {} THEN s
     ELSE SubSeq(s, (CHOOSE i \in slashes : \A j \in slashes : j <= i) + 1, Len(s))

UpperCase ==
  <<"A", "B", "C", "D", "E", "F", "G", "H", "I", "J", "K", "L", "M",
    "N", "O", "P", "Q", "R", "S", "T", "U", "V", "W", "X", "Y", "Z">>

LowerCase ==
  <<"a", "b", "c", "d", "e", "f", "g", "h", "i", "j", "k", "l", "m",
    "n", "o", "p", "q", "r", "s", "t", "u", "v", "w", "x", "y", "z">>

\* String.prototype.toLowerCase
toLowerCase(s) ==
  [i \in 1..Len(s) |->
     IF \E k \in DOMAIN UpperCase : UpperCase[k] = s[i]
     THEN LowerCase[CHOOSE k \in DOMAIN UpperCase : UpperCase[k] = s[i]]
     ELSE s[i]]

\* a config file as the statements it holds; extractLaravelComponents finds
\* the `new LaravelService('<name>'` among them
Statement(ctor, name) == [ctor |-> ctor, name |-> name]

ConfigFile(exists, statements) == [exists |-> exists, statements |-> statements]

Directory(ts, js) == ("sst.config.ts" :> ts) @@ ("sst.config.js" :> js)

\* findSstConfig(): the first of the two names that exists, or null
findSstConfig(dir) ==
  IF dir["sst.config.ts"].exists THEN "sst.config.ts"
  ELSE IF dir["sst.config.js"].exists THEN "sst.config.js"
  ELSE Undefined

\* the fs.existsSync calls findSstConfig makes
findSstConfigCalls(dir) ==
  IF dir["sst.config.ts"].exists THEN <<"existsSync sst.config.ts">>
  ELSE <<"existsSync sst.config.ts", "existsSync sst.config.js">>

IsLaravelService(statement) == statement.ctor = "LaravelService"

\* variant: only the first component of the file is reported
extractFirstLaravelComponent(content) ==
  LET found == SelectSeq(content, IsLaravelService)
  IN IF found = << >> THEN << >> ELSE <<found[1].name>>

extractLaravelComponents(content) ==
  LET found == SelectSeq(content, IsLaravelService)
  IN [i \in 1..Len(found) |-> found[i].name]

NotHyphen(c) == c # "-"

\* variant: the component name is used as written
componentNameAsWritten(component) == component

\* components[0].replace(/-/g, '')
componentName(component) == SelectSeq(component, NotHyphen)

clusterMatches(arn, stage, name) ==
  Includes(LastSegment(arn), stage) /\ Includes(LastSegment(arn), name)

\* clusterArns.find(...): the first match, << >> for undefined
matchingCluster(clusterArns, stage, name) ==
  LET hits == {i \in 1..Len(clusterArns) : clusterMatches(clusterArns[i], stage, name)}
  IN IF hits = {} THEN << >>
     ELSE clusterArns[CHOOSE i \in hits : \A j \in hits : i <= j]

EcsTask(taskArn, containers, lastStatus) ==
  [taskArn |-> taskArn, containers |-> containers, lastStatus |-> lastStatus]

\* `matchingTask` while it is undefined
NoTask == EcsTask(<< >>, << >>, Undefined)

servicePrefix(service) ==
  IF service = <<"w", "e", "b">> THEN <<"-", "w", "e", "b">>
  ELSE IF service = <<"w", "o", "r", "k", "e", "r">> THEN <<"-", "w", "o", "r", "k", "e", "r">>
  ELSE <<"-">> \o service

\* task.containers?.[0]?.name || ''
containerName(task) ==
  IF task.containers = << >> THEN << >> ELSE task.containers[1].name

\* variant: the container name is compared as it is
taskMatchesCase(task, service) ==
  Includes(containerName(task), servicePrefix(service))

taskMatches(task, service) ==
  Includes(toLowerCase(containerName(task)), toLowerCase(servicePrefix(service)))

\* variant: a match is reported only when it is the only one
findSingleMatchingTask(tasks, service) ==
  LET hits == {i \in 1..Len(tasks) : taskMatches(tasks[i], service)}
  IN IF Cardinality(hits) # 1 THEN NoTask
     ELSE tasks[CHOOSE i \in hits : TRUE]

\* String.prototype.substring(0, n)
Substring(s, n) == SubSeq(s, 1, IF Len(s) < n THEN Len(s) ELSE n)

\* one choice of select(): its label (container name, or unknown, the first
\* 8 characters of the task id and the status), its value and description
Choice(task) ==
  [name |-> [container |-> IF containerName(task) = << >>
                           THEN <<"u", "n", "k", "n", "o", "w", "n">>
                           ELSE containerName(task),
             id |-> Substring(LastSegment(task.taskArn), 8),
             status |-> task.lastStatus],
   value |-> task,
   description |-> LastSegment(task.taskArn)]

\* variant: the tasks without a container are not offered
taskChoicesWithContainer(tasks) ==
  LET shown == SelectSeq(tasks, LAMBDA task : task.containers # << >>)
  IN [i \in 1..Len(shown) |-> Choice(shown[i])]

\* describeTasksResponse.tasks?.map(...) || []
taskChoices(tasks) == [i \in 1..Len(tasks) |-> Choice(tasks[i])]

\* tasks.find(...): the first match, NoTask for undefined
findMatchingTask(tasks, service) ==
  LET hits == {i \in 1..Len(tasks) : taskMatches(tasks[i], service)}
  IN IF hits = {} THEN NoTask
     ELSE tasks[CHOOSE i \in hits : \A j \in hits : i <= j]

(***************************************************************************)
(* What the command line tool is run with: its options, the working        *)
(* directory and the clusters and running tasks ECS answers with.          *)
(***************************************************************************)
StageProd == <<"p", "r", "o", "d">>

StageDev == <<"d", "e", "v">>

MyApp == <<"m", "y", "-", "a", "p", "p">>

Api == <<"a", "p", "i">>

ArnPrefix == <<"a", "r", "n", ":", "c", "l", "u", "s", "t", "e", "r", "/">>

ClusterArn(prefix, component) ==
  ArnPrefix \o prefix \o <<"-">> \o component \o <<"C", "l", "u", "s", "t", "e", "r">>

ClusterArns ==
  { ClusterArn(StageProd, <<"m", "y", "a", "p", "p">>),
    ClusterArn(StageDev, <<"m", "y", "a", "p", "p">>),
    ClusterArn(StageProd, Api),
    ClusterArn(<<"p", "r", "e">> \o StageProd, <<"m", "y", "a", "p", "p">>) }

OverrideArn == ArnPrefix \o <<"m", "a", "n", "u", "a", "l">>

NoConfigFile == ConfigFile(FALSE, << >>)

Directories ==
  { Directory(NoConfigFile, NoConfigFile),
    Directory(ConfigFile(TRUE, <<Statement("sst.aws.Postgres", <<"d", "b">>)>>), NoConfigFile),
    Directory(ConfigFile(TRUE, <<Statement("sst.aws.Postgres", <<"d", "b">>),
                                 Statement("LaravelService", MyApp)>>), NoConfigFile),
    Directory(ConfigFile(TRUE, <<Statement("LaravelService", MyApp),
                                 Statement("LaravelService", Api)>>), NoConfigFile),
    Directory(NoConfigFile, ConfigFile(TRUE, <<Statement("LaravelService", Api)>>)),
    Directory(ConfigFile(TRUE, <<Statement("LaravelService", MyApp)>>),
              ConfigFile(TRUE, <<Statement("LaravelService", MyApp),
                                 Statement("LaravelService", Api)>>)) }

Container(name) == [name |-> name]

WebTask ==
  EcsTask(<<"t", "/", "1">>, <<Container(<<"a", "p", "p", "-", "W", "e", "b">>)>>, "RUNNING")

RunningTasks ==
  { WebTask,
    EcsTask(<<"t", "/", "2">>, <<Container(<<"a", "p", "p", "-", "W", "e", "b">>)>>, "RUNNING"),
    EcsTask(<<"t", "/", "3">>,
            <<Container(<<"a", "p", "p", "-", "w", "o", "r", "k", "e", "r", "-", "1">>)>>,
            "RUNNING"),
    EcsTask(<<"t", "/", "4">>, <<Container(<<"a", "p", "p", "-", "q", "u", "e", "u", "e">>)>>,
            "RUNNING"),
    EcsTask(<<"t", "/", "5">>, << >>, "RUNNING") }

ServiceHints ==
  { << >>, <<"w", "e", "b">>, <<"W", "e", "b">>, <<"w", "o", "r", "k", "e", "r">>,
    <<"q", "u", "e", "u", "e">> }

\* the lists ECS answers with name a cluster or a task once
Listings(S, n) == {l \in SeqsUpTo(S, n) : \A i, j \in 1..Len(l) : i # j => l[i] # l[j]}

Options(stage, cluster, service) == [stage |-> stage, cluster |-> cluster, service |-> service]

Ecs(clusterArns, tasks) == [clusterArns |-> clusterArns, tasks |-> tasks]

\* the task definition of the running tasks: its ARN on the task (<< >> when
\* the task has none), the log driver of its first container (Undefined
\* without a logConfiguration) and the awslogs-group option
TaskDefinition(arn, logDriver, logGroup) ==
  [arn |-> arn, logDriver |-> logDriver, logGroup |-> logGroup]

TaskDefinitionArn == <<"t", "d", "/", "a", "p", "p", ":", "1">>

LogGroup == <<"/", "e", "c", "s", "/", "a", "p", "p">>

AwsLogs == TaskDefinition(TaskDefinitionArn, "awslogs", LogGroup)

TaskDefinitions ==
  { AwsLogs,
    TaskDefinition(<< >>, Undefined, << >>),
    TaskDefinition(TaskDefinitionArn, Undefined, << >>),
    TaskDefinition(TaskDefinitionArn, "json-file", << >>),
    TaskDefinition(TaskDefinitionArn, "json-file", LogGroup),
    TaskDefinition(TaskDefinitionArn, "awslogs", << >>) }

\* the command line tool is not running
CliIdle ==
  /\ cliPc = "idle"
  /\ options = Options(<< >>, << >>, << >>)
  /\ cwd = Directory(NoConfigFile, NoConfigFile)
  /\ ecs = Ecs(<< >>, << >>)
  /\ calls = << >>
  /\ clusterArn = << >>
  /\ matchingTask = NoTask
  /\ cliCommand = "none"
  /\ taskDef = TaskDefinition(<< >>, Undefined, << >>)
  /\ choices = << >>
  /\ selection = 0
  /\ backupPath = Undefined
  /\ templateExists = FALSE

(***************************************************************************)
(* The constructor of LaravelService, one action per step.                 *)
(***************************************************************************)
DefaultWorker == Worker(Undefined, "true", Undefined, EmptyObject)

Start ==
  /\ pc = "prepareEnvironmentFile"
  /\ idx = 1
  /\ overlay = NoFile
  /\ services = << >>
  /\ workerFiles = << >>
  /\ generation = 1
  /\ CliIdle

\* link lists of every shape, with and without an environment file
InitLinks ==
  /\ \E link \in LinkLists, file \in {Undefined, ".env"}, autoInject \in OptionalBoolean :
       args = Args(link,
                   Web(TRUE, Domain("string", "app.example.com"), FALSE),
                   Workers(TRUE, <<DefaultWorker>>),
                   Config(Undefined, file, autoInject,
                          Vars(TRUE, << [key |-> "SESSION_DRIVER", value |-> "redis"] >>)))
  /\ applySync = FALSE
  /\ envSrc = [exists |-> TRUE, lines |-> <<"APP_NAME=Laravel", "DB_HOST=127.0.0.1">>]
  /\ dockerIgnore = NoFile
  /\ Start

\* every configuration option, over a few link lists
InitConfig ==
  /\ \E link \in {<< >>, <<Bare(Pg)>>, <<Bare(AuroraPg), Binding(Pg, "overrideHost", Undefined)>>},
        declared \in BOOLEAN, domain \in Domains, loadBalancer \in BOOLEAN,
        opcache \in OptionalBoolean, file \in {Undefined, ".env"},
        autoInject \in OptionalBoolean, envVars \in VarsChoices :
       args = Args(link, Web(declared, domain, loadBalancer), Workers(FALSE, << >>),
                   Config(opcache, file, autoInject, envVars))
  /\ applySync \in BOOLEAN
  /\ envSrc \in EnvFiles
  /\ dockerIgnore = NoFile
  /\ Start

\* every list of workers
InitWorkers ==
  /\ \E list \in SeqsUpTo(WorkerConfigs, MaxWorkers) :
       args = Args(<<Bare(Pg)>>, Web(TRUE, Domain(Undefined, Undefined), FALSE),
                   Workers(TRUE, list),
                   Config(Undefined, Undefined, Undefined, Vars(FALSE, EmptyObject)))
  /\ applySync = FALSE
  /\ envSrc = NoFile
  /\ dockerIgnore = NoFile
  /\ Start

\* every list of workers that are named or not
InitNames ==
  /\ \E list \in SeqsUpTo(NamedWorkers, MaxWorkers) :
       args = Args(<< >>, Web(FALSE, Domain(Undefined, Undefined), FALSE),
                   Workers(TRUE, list),
                   Config(Undefined, Undefined, Undefined, Vars(FALSE, EmptyObject)))
  /\ applySync = FALSE
  /\ envSrc = NoFile
  /\ dockerIgnore = NoFile
  /\ Start

\* a web service and workers together, over every domain and every vars
InitServices ==
  /\ \E link \in {<< >>, <<Binding(Pg, Undefined, "customNames"), Bare(Rd)>>},
        domain \in Domains, envVars \in VarsChoices,
        list \in {<<DefaultWorker>>, <<DefaultWorker, Worker("queue", Undefined, "true", EmptyObject)>>} :
       args = Args(link, Web(TRUE, domain, FALSE), Workers(TRUE, list),
                   Config(Undefined, Undefined, Undefined, envVars))
  /\ applySync = FALSE
  /\ envSrc = NoFile
  /\ dockerIgnore \in DockerIgnores
  /\ Start

Init == InitLinks \/ InitConfig \/ InitWorkers \/ InitNames \/ InitServices

\* prepareEnvironmentFile()
PrepareEnvironmentFile ==
  /\ pc = "prepareEnvironmentFile"
  /\ overlay' = prepareEnvironmentFile(overlay, args, envSrc, applySync)
  /\ pc' = "web"
  /\ UNCHANGED <<args, applySync, envSrc, idx, services, workerFiles>>
  /\ UNCHANGED <<dockerIgnore, generation>>
  /\ UNCHANGED cliVars

\* if (args.web) addWebService()
WebStep ==
  /\ pc = "web"
  /\ IF args.web.declared
     THEN /\ services' = Append(services, addWebService(args))
          /\ args' = argsAfterGetEnvironmentVariables(args)
          /\ dockerIgnore' = getImage(dockerIgnore)
     ELSE UNCHANGED <<services, args, dockerIgnore>>
  /\ pc' = "workers"
  /\ UNCHANGED <<applySync, envSrc, idx, overlay, workerFiles, generation>>
  /\ UNCHANGED cliVars

\* one iteration of args.workers.forEach in addWorkerServices()
WorkerStep ==
  /\ pc = "workers"
  /\ args.workers.declared
  /\ idx <= Len(args.workers.list)
  /\ LET workerConfig == args.workers.list[idx]
         path == workerBuildPath(workerConfig, idx - 1)
     IN /\ workerFiles' =
             [p \in (DOMAIN workerFiles) \cup {path} |->
                IF p = path THEN createWorkerTasks(dirAt(workerFiles, path), workerConfig)
                ELSE workerFiles[p]]
        /\ services' = Append(services, createWorkerService(args, workerConfig, idx - 1))
  /\ args' = argsAfterGetEnvironmentVariables(args)
  /\ dockerIgnore' = getImage(dockerIgnore)
  /\ idx' = idx + 1
  /\ UNCHANGED <<applySync, envSrc, pc, overlay, generation>>
  /\ UNCHANGED cliVars

\* the constructor returns
Finish ==
  /\ pc = "workers"
  /\ args.workers.declared => idx > Len(args.workers.list)
  /\ pc' = "done"
  /\ UNCHANGED <<args, applySync, envSrc, idx, overlay, services, workerFiles>>
  /\ UNCHANGED <<dockerIgnore, generation>>
  /\ UNCHANGED cliVars

Next == PrepareEnvironmentFile \/ WebStep \/ WorkerStep \/ Finish

Spec == Init /\ [][Next]_vars

(***************************************************************************)
(* Plan generations that follow one another: every run of sst constructs   *)
(* the component again, over the build directory and the .dockerignore the *)
(* run before left behind (the constructor creates the directory only if   *)
(* it is missing and removes nothing).                                     *)
(***************************************************************************)
EmailsWorker ==
  Worker("queue", "true", Undefined,
         << [key |-> "emails", value |-> Task("php artisan queue:work --queue=emails", << >>)] >>)

\* the workers of a plan, each list with names that differ
PlanWorkerLists ==
  { << >>,
    <<DefaultWorker>>,
    <<Worker(Undefined, Undefined, "true", EmptyObject), EmailsWorker>>,
    <<Worker("queue", Undefined, "true", EmptyObject)>> }

Plans ==
  { Args(<< >>, Web(web, Domain(Undefined, Undefined), FALSE), Workers(TRUE, list),
         Config(Undefined, Undefined, Undefined, Vars(FALSE, EmptyObject))) :
      web \in BOOLEAN, list \in PlanWorkerLists }

InitPlans ==
  /\ args \in Plans
  /\ applySync = FALSE
  /\ envSrc = NoFile
  /\ dockerIgnore \in DockerIgnores
  /\ Start

\* the constructor is entered again with the declarations of the next run
NewPlan ==
  /\ pc = "done"
  /\ generation < MaxPlans
  /\ args' \in Plans
  /\ pc' = "prepareEnvironmentFile"
  /\ idx' = 1
  /\ services' = << >>
  /\ generation' = generation + 1
  /\ UNCHANGED <<applySync, envSrc, overlay, workerFiles, dockerIgnore>>
  /\ UNCHANGED cliVars

NextPlans == PrepareEnvironmentFile \/ WebStep \/ WorkerStep \/ Finish \/ NewPlan

SpecPlans == InitPlans /\ [][NextPlans]_vars

(***************************************************************************)
(* The ssh and logs commands up to the task they act on: findClusterArn,   *)
(* then findTask, one action per stretch of code between two awaits.       *)
(***************************************************************************)
\* no plan generation is running
ComponentIdle ==
  /\ args = Args(<< >>, Web(FALSE, Domain(Undefined, Undefined), FALSE), Workers(FALSE, << >>),
                 Config(Undefined, Undefined, Undefined, Vars(FALSE, EmptyObject)))
  /\ applySync = FALSE
  /\ envSrc = NoFile
  /\ pc = "done"
  /\ idx = 1
  /\ overlay = NoFile
  /\ services = << >>
  /\ workerFiles = << >>
  /\ dockerIgnore = NoFile
  /\ generation = 1

CliStart ==
  /\ cliPc = "action"
  /\ calls = << >>
  /\ clusterArn = << >>
  /\ matchingTask = NoTask
  /\ choices = << >>
  /\ selection = 0
  /\ backupPath = Undefined
  /\ templateExists = FALSE
  /\ ComponentIdle

\* every way of locating the cluster
InitClusters ==
  /\ cliCommand \in {"ssh", "logs"}
  /\ \E stage \in {StageProd, StageDev}, cluster \in {<< >>, OverrideArn} :
       options = Options(stage, cluster, << >>)
  /\ cwd \in Directories
  /\ \E clusterArns \in Listings(ClusterArns, MaxClusters) :
       ecs = Ecs(clusterArns, <<WebTask>>)
  /\ taskDef = AwsLogs
  /\ CliStart

\* every service hint over every list of running tasks
InitTasks ==
  /\ cliCommand \in {"ssh", "logs"}
  /\ \E service \in ServiceHints : options = Options(StageProd, OverrideArn, service)
  /\ cwd = Directory(NoConfigFile, NoConfigFile)
  /\ \E tasks \in Listings(RunningTasks, MaxTasks) : ecs = Ecs(<< >>, tasks)
  /\ taskDef = AwsLogs
  /\ CliStart

\* with and without a stage, over every task definition
InitLogs ==
  /\ cliCommand \in {"ssh", "logs"}
  /\ \E stage \in {<< >>, StageProd}, service \in {<< >>, <<"w", "e", "b">>} :
       options = Options(stage, OverrideArn, service)
  /\ cwd = Directory(NoConfigFile, NoConfigFile)
  /\ ecs = Ecs(<< >>, <<WebTask>>)
  /\ taskDef \in TaskDefinitions
  /\ CliStart

InitCli == InitClusters \/ InitTasks \/ InitLogs

\* the action of the ssh or logs command up to the call of findClusterArn
CommandAction ==
  /\ cliPc = "action"
  /\ cliCommand \in {"ssh", "logs"}
  /\ cliPc' = IF options.stage = << >> THEN "process.exit(1)" ELSE "findClusterArn"
  /\ UNCHANGED <<cliInputs, calls, clusterArn, matchingTask, choices, selection, backupPath>>
  /\ UNCHANGED componentVars

\* findClusterArn() up to its return, its process.exit(1) or the await of
\* ListClustersCommand
FindClusterArn ==
  /\ cliPc = "findClusterArn"
  /\ LET configPath == findSstConfig(cwd)
         components == IF configPath = Undefined THEN << >>
                       ELSE extractLaravelComponents(cwd[configPath].statements)
     IN IF options.cluster # << >>
        THEN /\ clusterArn' = options.cluster
             /\ cliPc' = "findTask"
             /\ UNCHANGED calls
        ELSE IF configPath = Undefined
        THEN /\ calls' = calls \o findSstConfigCalls(cwd)
             /\ cliPc' = "process.exit(1)"
             /\ UNCHANGED clusterArn
        ELSE IF Len(components) = 0 \/ Len(components) > 1
        THEN /\ calls' = calls \o findSstConfigCalls(cwd) \o <<"readFileSync " \o configPath>>
             /\ cliPc' = "process.exit(1)"
             /\ UNCHANGED clusterArn
        ELSE /\ calls' = calls \o findSstConfigCalls(cwd)
                           \o <<"readFileSync " \o configPath, "ListClustersCommand">>
             /\ cliPc' = "ListClusters"
             /\ UNCHANGED clusterArn
  /\ UNCHANGED <<cliInputs, matchingTask, choices, selection, backupPath>>
  /\ UNCHANGED componentVars

\* findClusterArn() after ListClustersCommand answered
ListClustersResponse ==
  /\ cliPc = "ListClusters"
  /\ LET components == extractLaravelComponents(cwd[findSstConfig(cwd)].statements)
         found == matchingCluster(ecs.clusterArns, options.stage, componentName(components[1]))
     IN IF ecs.clusterArns = << >> \/ found = << >>
        THEN /\ cliPc' = "process.exit(1)"
             /\ UNCHANGED clusterArn
        ELSE /\ clusterArn' = found
             /\ cliPc' = "findTask"
  /\ UNCHANGED <<cliInputs, calls, matchingTask, choices, selection, backupPath>>
  /\ UNCHANGED componentVars

\* findTask() up to the await of ListTasksCommand
FindTask ==
  /\ cliPc = "findTask"
  /\ calls' = Append(calls, "ListTasksCommand")
  /\ cliPc' = "ListTasks"
  /\ UNCHANGED <<cliInputs, clusterArn, matchingTask, choices, selection, backupPath>>
  /\ UNCHANGED componentVars

\* variant: DescribeTasksCommand is sent whatever ListTasksCommand answered
ListTasksResponseUnchecked ==
  /\ cliPc = "ListTasks"
  /\ calls' = Append(calls, "DescribeTasksCommand")
  /\ cliPc' = "DescribeTasks"
  /\ UNCHANGED <<cliInputs, clusterArn, matchingTask, choices, selection, backupPath>>
  /\ UNCHANGED componentVars

\* findTask() after ListTasksCommand answered
ListTasksResponse ==
  /\ cliPc = "ListTasks"
  /\ IF ecs.tasks = << >>
     THEN /\ cliPc' = "process.exit(1)"
          /\ UNCHANGED calls
     ELSE /\ calls' = Append(calls, "DescribeTasksCommand")
          /\ cliPc' = "DescribeTasks"
  /\ UNCHANGED <<cliInputs, clusterArn, matchingTask, choices, selection, backupPath>>
  /\ UNCHANGED componentVars

\* findTask() after DescribeTasksCommand answered, up to its return, its
\* process.exit(1) or the await of select()
DescribeTasksResponse ==
  /\ cliPc = "DescribeTasks"
  /\ LET found == IF options.service # << >>
                  THEN findMatchingTask(ecs.tasks, options.service) ELSE NoTask
     IN IF found # NoTask
        THEN /\ matchingTask' = found
             /\ cliPc' = "returned"
             /\ UNCHANGED <<calls, choices>>
        ELSE IF taskChoices(ecs.tasks) = << >>
        THEN /\ cliPc' = "process.exit(1)"
             /\ choices' = << >>
             /\ UNCHANGED <<calls, matchingTask>>
        ELSE /\ calls' = Append(calls, "select")
             /\ choices' = taskChoices(ecs.tasks)
             /\ cliPc' = "select"
             /\ UNCHANGED matchingTask
  /\ UNCHANGED <<cliInputs, clusterArn, selection, backupPath>>
  /\ UNCHANGED componentVars

\* the operator picks one of the choices select() shows, and findTask()
\* returns its value
Select ==
  /\ cliPc = "select"
  /\ \E i \in 1..Len(choices) :
       /\ selection' = i
       /\ matchingTask' = choices[i].value
  /\ cliPc' = "returned"
  /\ UNCHANGED <<cliInputs, calls, clusterArn, choices, backupPath>>
  /\ UNCHANGED componentVars

\* ssh: after findTask() returned, the aws child process is spawned
SshSpawn ==
  /\ cliPc = "returned"
  /\ cliCommand = "ssh"
  /\ calls' = Append(calls, "spawn aws ecs execute-command")
  /\ cliPc' = "spawned"
  /\ UNCHANGED <<cliInputs, clusterArn, matchingTask, choices, selection, backupPath>>
  /\ UNCHANGED componentVars

\* logs: after findTask() returned, up to the await of
\* DescribeTaskDefinitionCommand
LogsTaskDefinition ==
  /\ cliPc = "returned"
  /\ cliCommand = "logs"
  /\ IF taskDef.arn = << >>
     THEN /\ cliPc' = "process.exit(1)"
          /\ UNCHANGED calls
     ELSE /\ calls' = Append(calls, "DescribeTaskDefinitionCommand")
          /\ cliPc' = "DescribeTaskDefinition"
  /\ UNCHANGED <<cliInputs, clusterArn, matchingTask, choices, selection, backupPath>>
  /\ UNCHANGED componentVars

\* variant: any log driver is taken for CloudWatch Logs
logsCanStreamAnyDriver(definition) ==
  definition.logDriver # Undefined /\ definition.logGroup # << >>

\* logConfig is there, its driver is awslogs and it names a log group
logsCanStream(definition) ==
  definition.logDriver = "awslogs" /\ definition.logGroup # << >>

\* logs: after DescribeTaskDefinitionCommand answered
DescribeTaskDefinitionResponse ==
  /\ cliPc = "DescribeTaskDefinition"
  /\ IF logsCanStream(taskDef)
     THEN /\ calls' = Append(calls, "spawn aws logs tail")
          /\ cliPc' = "spawned"
     ELSE /\ cliPc' = "process.exit(1)"
          /\ UNCHANGED calls
  /\ UNCHANGED <<cliInputs, clusterArn, matchingTask, choices, selection, backupPath>>
  /\ UNCHANGED componentVars

\* awsCommand.on('exit'): process.exit(code || 0)
ChildExit ==
  /\ cliPc = "spawned"
  /\ \E code \in {0, 1} :
       cliPc' = IF code = 0 THEN "process.exit(0)" ELSE "process.exit(code)"
  /\ UNCHANGED <<cliInputs, calls, clusterArn, matchingTask, choices, selection, backupPath>>
  /\ UNCHANGED componentVars

\* an awaited ECS call or select() rejects: the catch block of the action
\* prints the error and calls process.exit(1)
Rejected ==
  /\ cliPc \in {"ListClusters", "ListTasks", "DescribeTasks", "select",
                "DescribeTaskDefinition"}
  /\ cliPc' = "catch"
  /\ UNCHANGED <<cliInputs, calls, clusterArn, matchingTask, choices, selection, backupPath>>
  /\ UNCHANGED componentVars

NextCli ==
  \/ CommandAction
  \/ FindClusterArn
  \/ ListClustersResponse
  \/ FindTask
  \/ ListTasksResponse
  \/ DescribeTasksResponse
  \/ Select
  \/ SshSpawn
  \/ LogsTaskDefinition
  \/ DescribeTaskDefinitionResponse
  \/ ChildExit
  \/ Rejected

SpecCli == InitCli /\ [][NextCli]_vars

(***************************************************************************)
(* The install and deploy commands.  The working directory holds the two   *)
(* config files, install's two backups, the .sst folder and the            *)
(* environment files a config may name; a child process ends with an exit  *)
(* code or with an 'error' event.                                          *)
(***************************************************************************)
existsSync(dir, p) == p \in DOMAIN dir /\ dir[p].exists

unlinkSync(dir, p) == [dir EXCEPT ![p] = NoConfigFile]

renameSync(dir, from, to) == [dir EXCEPT ![to] = dir[from], ![from] = NoConfigFile]

writeFileSync(dir, p, content) == [dir EXCEPT ![p] = content]

\* the content of templates/sst.config.init.template
InitTemplate == ConfigFile(TRUE, <<Statement("sst.config.init.template", << >>)>>)

Folder == ConfigFile(TRUE, << >>)

\* installCommand, the try block up to the spawn: the directory, the local
\* backupPath and whether the block threw
installPrepare(dir, template) ==
  LET configPath == findSstConfig(dir)
  IN IF existsSync(dir, ".sst") /\ configPath # Undefined
     THEN LET renamed == renameSync(dir, configPath, configPath \o ".bkp")
          IN [dir |-> IF template
                      THEN writeFileSync(renamed, "sst.config.ts", InitTemplate)
                      ELSE renamed,
              backupPath |-> configPath \o ".bkp",
              thrown |-> ~template]
     ELSE [dir |-> dir, backupPath |-> Undefined, thrown |-> FALSE]

\* installCommand, the try block after `sst install` exited with code 0
installRestore(dir, backup) ==
  IF backup # Undefined
  THEN renameSync(IF existsSync(dir, "sst.config.ts")
                  THEN unlinkSync(dir, "sst.config.ts") ELSE dir,
                  backup,
                  IF backup = "sst.config.ts.bkp" THEN "sst.config.ts" ELSE "sst.config.js")
  ELSE dir

\* installCommand, the catch block: the first backup that exists is moved
\* back over the path it was taken from
installCatch(dir) ==
  IF existsSync(dir, "sst.config.ts.bkp")
  THEN renameSync(IF existsSync(dir, "sst.config.ts")
                  THEN unlinkSync(dir, "sst.config.ts") ELSE dir,
                  "sst.config.ts.bkp", "sst.config.ts")
  ELSE IF existsSync(dir, "sst.config.js.bkp")
  THEN renameSync(IF existsSync(dir, "sst.config.js")
                  THEN unlinkSync(dir, "sst.config.js") ELSE dir,
                  "sst.config.js.bkp", "sst.config.js")
  ELSE dir

\* how a spawned child process ends: the 'exit' event with its code, or the
\* 'error' event; the handler that ran is noted in `calls` as "on ..."
ChildOutcomes == {"exit 0", "exit 1", "error"}

\* installCommand up to the await of the child's exit, or to process.exit(1)
\* when the template is missing
InstallAction ==
  /\ cliPc = "action"
  /\ cliCommand = "install"
  /\ LET prepared == installPrepare(cwd, templateExists)
     IN /\ backupPath' = prepared.backupPath
        /\ IF prepared.thrown
           THEN /\ cwd' = installCatch(prepared.dir)
                /\ cliPc' = "process.exit(1)"
                /\ UNCHANGED calls
           ELSE /\ cwd' = prepared.dir
                /\ calls' = Append(calls, "spawn npx sst install")
                /\ cliPc' = "sst install"
  /\ UNCHANGED <<cliCommand, options, ecs, taskDef, templateExists>>
  /\ UNCHANGED <<clusterArn, matchingTask, choices, selection>>
  /\ UNCHANGED componentVars

\* installCommand after the child ended: the rest of the try block, or the
\* catch block
InstallExit ==
  /\ cliPc = "sst install"
  /\ \E outcome \in ChildOutcomes :
       /\ calls' = Append(calls, "on " \o outcome)
       /\ IF outcome = "exit 0"
          THEN /\ cwd' = installRestore(cwd, backupPath)
               /\ cliPc' = "end"
          ELSE /\ cwd' = installCatch(cwd)
               /\ cliPc' = "process.exit(1)"
  /\ UNCHANGED <<cliCommand, options, ecs, taskDef, templateExists>>
  /\ UNCHANGED <<clusterArn, matchingTask, choices, selection, backupPath>>
  /\ UNCHANGED componentVars

\* a block `environment: { ... }` of the config; file is what its `file:`
\* property is written as, piece by piece, or << >> when it has none
EnvironmentBlock(file) == Statement("environment", file)

IsEnvironmentBlock(statement) == statement.ctor = "environment"

\* a sequence of characters as one string
Text(chars) == Join(chars, "")

\* what /\$\{?\$app\.stage\}?/ matches
StagePlaceholders == {"${$app.stage}", "$$app.stage"}

\* envFile.replace(/\$\{?\$app\.stage\}?/g, stage)
RECURSIVE replaceStage(_, _)
replaceStage(pieces, stage) ==
  IF pieces = << >> THEN ""
  ELSE (IF Head(pieces) \in StagePlaceholders THEN Text(stage) ELSE Head(pieces))
         \o replaceStage(Tail(pieces), stage)

\* extractEnvironmentFile(): the file of the first environment block of the
\* content, or null
extractEnvironmentFile(content, stage) ==
  LET blocks == SelectSeq(content, IsEnvironmentBlock)
  IN IF blocks = << >> THEN Undefined
     ELSE IF blocks[1].name = << >> THEN Undefined
     ELSE replaceStage(blocks[1].name, stage)

\* variant: only the config file is looked for
validateDeploymentConfigOnly(dir, stage) == findSstConfig(dir) # Undefined

\* validateDeployment(): TRUE when it returns, FALSE when it throws
validateDeployment(dir, stage) ==
  LET configPath == findSstConfig(dir)
  IN /\ configPath # Undefined
     /\ LET envFile == extractEnvironmentFile(dir[configPath].statements, stage)
        IN envFile # Undefined => existsSync(dir, envFile)

\* deployCommand up to the await of the child's exit, or to process.exit(1)
\* when validateDeployment threw
DeployAction ==
  /\ cliPc = "action"
  /\ cliCommand = "deploy"
  /\ IF validateDeployment(cwd, options.stage)
     THEN /\ calls' = Append(calls, "spawn npx sst deploy")
          /\ cliPc' = "sst deploy"
     ELSE /\ cliPc' = "process.exit(1)"
          /\ UNCHANGED calls
  /\ UNCHANGED <<cliInputs, clusterArn, matchingTask, choices, selection, backupPath>>
  /\ UNCHANGED componentVars

\* deployCommand after the child ended: the promise resolves for exit code
\* 0 and the action returns; anything else is caught
DeployExit ==
  /\ cliPc = "sst deploy"
  /\ \E outcome \in ChildOutcomes :
       /\ calls' = Append(calls, "on " \o outcome)
       /\ cliPc' = IF outcome = "exit 0" THEN "end" ELSE "process.exit(1)"
  /\ UNCHANGED <<cliInputs, clusterArn, matchingTask, choices, selection, backupPath>>
  /\ UNCHANGED componentVars

\* a command that talks to no ECS cluster starts
CommandStart ==
  /\ cliPc = "action"
  /\ ecs = Ecs(<< >>, << >>)
  /\ taskDef = TaskDefinition(<< >>, Undefined, << >>)
  /\ calls = << >>
  /\ clusterArn = << >>
  /\ matchingTask = NoTask
  /\ choices = << >>
  /\ selection = 0
  /\ backupPath = Undefined
  /\ ComponentIdle

TsConfigs ==
  { ConfigFile(TRUE, <<Statement("LaravelService", MyApp)>>),
    ConfigFile(TRUE, <<Statement("sst.aws.Postgres", <<"d", "b">>),
                       Statement("LaravelService", MyApp)>>) }

JsConfigs ==
  { ConfigFile(TRUE, <<Statement("LaravelService", Api)>>),
    ConfigFile(TRUE, <<Statement("LaravelService", Api),
                       Statement("sst.aws.Redis", <<"c", "a", "c", "h", "e">>)>>) }

InstallDirectory(ts, js, sst) ==
  Directory(ts, js)
    @@ ("sst.config.ts.bkp" :> NoConfigFile) @@ ("sst.config.js.bkp" :> NoConfigFile)
    @@ (".sst" :> IF sst THEN Folder ELSE NoConfigFile)

\* install in every directory, with and without the template
InitInstall ==
  /\ cliCommand = "install"
  /\ options = Options(<< >>, << >>, << >>)
  /\ \E ts \in {NoConfigFile} \cup TsConfigs, js \in {NoConfigFile} \cup JsConfigs,
        sst \in BOOLEAN :
       cwd = InstallDirectory(ts, js, sst)
  /\ templateExists \in BOOLEAN
  /\ CommandStart

\* the configs deploy reads: no environment block, a block without a file,
\* a fixed file, a file per stage, a placeholder the command does not know,
\* and a block of another component before the one that names the file
DeployConfigs ==
  { ConfigFile(TRUE, <<Statement("LaravelService", MyApp)>> \o blocks) :
      blocks \in { << >>,
                   <<EnvironmentBlock(<< >>)>>,
                   <<EnvironmentBlock(<<".env">>)>>,
                   <<EnvironmentBlock(<<".env.", "${$app.stage}">>)>>,
                   <<EnvironmentBlock(<<".env.", "${stage}">>)>>,
                   <<EnvironmentBlock(<< >>), EnvironmentBlock(<<".env">>)>> } }

DeployDirectory(ts, js, env, envProd) ==
  Directory(ts, js)
    @@ (".env" :> IF env THEN Folder ELSE NoConfigFile)
    @@ (".env.prod" :> IF envProd THEN Folder ELSE NoConfigFile)

\* deploy of either stage in every directory
InitDeploy ==
  /\ cliCommand = "deploy"
  /\ \E stage \in {StageProd, StageDev} : options = Options(stage, << >>, << >>)
  /\ \E config \in {NoConfigFile} \cup DeployConfigs, js \in BOOLEAN,
        env \in BOOLEAN, envProd \in BOOLEAN :
       cwd = IF js THEN DeployDirectory(NoConfigFile, config, env, envProd)
             ELSE DeployDirectory(config, NoConfigFile, env, envProd)
  /\ templateExists = TRUE
  /\ CommandStart

InitCommands == InitInstall \/ InitDeploy

NextCommands == InstallAction \/ InstallExit \/ DeployAction \/ DeployExit

SpecCommands == InitCommands /\ [][NextCommands]_vars

(***************************************************************************)
(* Observations used by the properties below.                              *)
(***************************************************************************)
Range(s) == {s[i] : i \in 1..Len(s)}

FileConfigured == args.config.environment.file # Undefined

Prepared == pc # "prepareEnvironmentFile"

\* the overlay file as prepareEnvironmentFile leaves it before any append
BaseLines == IF envSrc.exists THEN envSrc.lines ELSE <<"">>

\* the lines appended to the overlay file after the copied content
Appended ==
  IF overlay.exists /\ Len(overlay.lines) > Len(BaseLines)
  THEN SubSeq(overlay.lines, Len(BaseLines) + 1, Len(overlay.lines))
  ELSE << >>

Line(k, v) == k \o "=" \o v

\* the default variables of one resource, with its port resolved
Defaults(r) == applyLinkedResourcesEnv(<<r>>, TRUE)

ServiceSet == Range(services)

(***************************************************************************)
(* C1  Override precedence.  With an environment file configured and       *)
(* autoInject true, when the last entry of the link list is a binding      *)
(* { resource: R, environment: f }, the pairs appended to the overlay file *)
(* contain every pair of f(R), f's value replaces R's default value on a   *)
(* shared key, and R's other default keys are still there.                 *)
(***************************************************************************)
C1_OverridePrecedence ==
  (Prepared /\ FileConfigured /\ args.config.environment.autoInject = "true"
     /\ args.link # << >>)
  => LET b == args.link[Len(args.link)]
     IN (IsBinding(b) /\ b.environment # Undefined)
        => LET f == CallbackResult(b.environment, b.resource)
               d == Defaults(b.resource)
           IN /\ \A k \in Keys(f) : Line(k, Get(f, k)) \in Range(Appended)
              /\ \A k \in Keys(d) \cap Keys(f) :
                   Get(d, k) # Get(f, k) => Line(k, Get(d, k)) \notin Range(Appended)
              /\ \A k \in Keys(d) \ Keys(f) : Line(k, Get(d, k)) \in Range(Appended)

(***************************************************************************)
(* C2  A worker that sets the horizon (scheduler) flag and also declares a *)
(* task named laravel-horizon (laravel-scheduler) gets one record of that  *)
(* name whose script carries the worker's declared command.  Stated for    *)
(* the worker whose tasks were written last.                               *)
(***************************************************************************)
Preamble == "#!/command/with-contenv bash\ncd /var/www/html\n"

WorkerWritten == pc = "workers" /\ idx > 1

LastWorker == args.workers.list[idx - 1]

LastWorkerDir == workerFiles[workerBuildPath(LastWorker, idx - 2)]

DeclaredBuiltin(flag, taskName) ==
  WorkerWritten /\ Truthy(flag) /\ Has(LastWorker.tasks, taskName)

NameCount(tasks, taskName) == Cardinality({i \in 1..Len(tasks) : tasks[i].key = taskName})

BuiltinCommand(taskName) ==
  IF taskName = "laravel-horizon" THEN "php artisan horizon" ELSE "php artisan schedule:work"

C3_AutoInjectDefaultsOn ==
  (Prepared /\ FileConfigured)
  => Appended = IF args.config.environment.autoInject = "false"
                THEN << >>
                ELSE envLines(resourcesEnvVars(args.link, applySync))

(***************************************************************************)
(* C4  The environment map of every service holds the default variables of *)
(* every linked resource, overlaid by the operator's explicit vars,        *)
(* whether or not an environment file is configured.                       *)
(***************************************************************************)
ExplicitVars ==
  IF args.config.environment.vars.declared
  THEN args.config.environment.vars.obj ELSE EmptyObject

C4_ServiceEnvHasLinkedDefaults ==
  \A s \in ServiceSet :
    LET d == applyLinkedResourcesEnv(getLinks(args.link), applySync)
    IN /\ \A k \in Keys(d) \ Keys(ExplicitVars) : Get(s.environment, k) = Get(d, k)
       /\ \A k \in Keys(ExplicitVars) \ {"APP_URL"} :
            Get(s.environment, k) = Get(ExplicitVars, k)

(***************************************************************************)
(* C5  PHP_OPCACHE_ENABLE is "1" in every service image unless opcache is  *)
(* explicitly false, and "0" only then.                                    *)
(***************************************************************************)
C5_OpcacheDefaultsOn ==
  \A s \in ServiceSet :
    Get(s.image, "PHP_OPCACHE_ENABLE") = IF args.config.opcache = "false" THEN "0" ELSE "1"

(***************************************************************************)
(* C6  Whenever a domain is configured for the web service, as a string or *)
(* as an object, APP_URL of every service's environment map is derived     *)
(* from the domain name, whatever APP_URL the explicit vars supplied.      *)
(***************************************************************************)
C6_DomainSetsAppUrl ==
  HasDomain(args)
  => \A s \in ServiceSet :
       Get(s.environment, "APP_URL")
         \in {"https://" \o args.web.domain.name, args.web.domain.name}

(***************************************************************************)
(* C7  A relational link of the mysql family (Mysql, rds.Instance, Aurora  *)
(* on port 3306) or an Aurora on port 5432, given last in the link list,   *)
(* yields the six DB_* keys with DB_CONNECTION mysql, respectively pgsql,  *)
(* in the map applyLinkedResourcesEnv returns and so in the lines injected *)
(* into the overlay file.                                                  *)
(***************************************************************************)
DbKeys == {"DB_CONNECTION", "DB_HOST", "DB_DATABASE", "DB_USERNAME", "DB_PASSWORD", "DB_PORT"}

Injected == Prepared /\ FileConfigured /\ args.config.environment.autoInject = "true"

C7_RelationalKindsMapped ==
  (Injected /\ args.link # << >>)
  => LET r == args.link[Len(args.link)].resource
         env == applyLinkedResourcesEnv(getLinks(args.link), TRUE)
         connection == IF r.kind = "Aurora" /\ r.port = 5432 THEN "pgsql" ELSE "mysql"
     IN r.kind \in {"Mysql", "rds.Instance", "Aurora"}
        => /\ DbKeys \subseteq Keys(env)
           /\ Get(env, "DB_CONNECTION") = connection
           /\ Get(env, "DB_USERNAME") = r.username
           /\ Get(env, "DB_PASSWORD") = r.password
           /\ Line("DB_CONNECTION", connection) \in Range(Appended)

(***************************************************************************)
(* C8  A link list holding one Postgres resource resolves to exactly the   *)
(* six DB_* keys: DB_CONNECTION pgsql, host, database, username, password  *)
(* unchanged, and the port as a decimal string; when the variables are     *)
(* injected, exactly these six lines are appended to the overlay file.     *)
(***************************************************************************)
DecimalPort == (5432 :> "5432") @@ (5433 :> "5433")

PostgresPairs(r) ==
  { [key |-> "DB_CONNECTION", value |-> "pgsql"],
    [key |-> "DB_HOST", value |-> r.host],
    [key |-> "DB_DATABASE", value |-> r.database],
    [key |-> "DB_USERNAME", value |-> r.username],
    [key |-> "DB_PASSWORD", value |-> r.password],
    [key |-> "DB_PORT", value |-> DecimalPort[r.port]] }

SinglePostgres ==
  /\ Len(args.link) = 1
  /\ args.link[1].resource.kind = "Postgres"
  /\ linkCallback(args.link[1]) = Undefined

C8_SinglePostgres ==
  SinglePostgres
  => LET r == args.link[1].resource
         env == applyLinkedResourcesEnv(getLinks(args.link), applySync)
     IN /\ Len(env) = 6
        /\ Range(env) = PostgresPairs(r)
        /\ Injected => /\ Len(Appended) = 6
                       /\ Range(Appended) = {Line(e.key, e.value) : e \in PostgresPairs(r)}

C8_Witness ==
  /\ Injected
  /\ args.link = <<Bare(Pg)>>
  /\ Range(Appended) = {"DB_CONNECTION=pgsql", "DB_HOST=db.local", "DB_DATABASE=app",
                        "DB_USERNAME=u", "DB_PASSWORD=p", "DB_PORT=5432"}

(***************************************************************************)
(* C9  Per-binding maps are merged in link-list order: for every key, the  *)
(* injected value is the one contributed by the last binding contributing  *)
(* that key, a binding's contribution being its defaults overlaid by its   *)
(* own callback (the callback the component reads).                        *)
(***************************************************************************)
Contribution(link) ==
  Assign(applyLinkedResourcesEnv(<<link.resource>>, applySync),
         IF IsBinding(link) /\ linkCallback(link) # Undefined
         THEN CallbackResult(linkCallback(link), link.resource)
         ELSE EmptyObject)

C9_LaterBindingWins ==
  Injected
  => \A i \in 1..Len(args.link) :
       \A k \in Keys(Contribution(args.link[i])) :
         (\A j \in (i + 1)..Len(args.link) : k \notin Keys(Contribution(args.link[j])))
         => Line(k, Get(Contribution(args.link[i]), k)) \in Range(Appended)

(***************************************************************************)
(* C10  The mapper is total and permissive: a link of a kind it has no     *)
(* rule for contributes no keys, the other links contribute what they      *)
(* would without it, and an empty link list yields an empty map; the same  *)
(* holds of the lines injected into the overlay file.                      *)
(***************************************************************************)
SupportedKinds ==
  {"Postgres", "Mysql", "Aurora", "rds.Instance", "Redis", "Email", "Queue", "Bucket"}

IsSupported(r) == r.kind \in SupportedKinds

C10_UnknownKindIgnored ==
  LET rs == getLinks(args.link)
      others == SelectSeq(rs, IsSupported)
  IN /\ \A portRead \in BOOLEAN :
          /\ applyLinkedResourcesEnv(rs, portRead) = applyLinkedResourcesEnv(others, portRead)
          /\ \A i \in 1..Len(rs) :
               ~IsSupported(rs[i]) => applyLinkedResourcesEnv(<<rs[i]>>, portRead) = EmptyObject
          /\ rs = << >> => applyLinkedResourcesEnv(rs, portRead) = EmptyObject
     /\ Injected
        => Appended = envLines(Assign(applyLinkedResourcesEnv(others, applySync),
                                      customEnvFrom(EmptyObject, args.link)))

C10_Witness ==
  /\ Injected
  /\ Len(args.link) = 2
  /\ args.link[1] = Bare(Fn)
  /\ args.link[2] = Bare(Rd)
  /\ Appended = <<"REDIS_HOST=tls://cache.local", "REDIS_PORT=6379", "REDIS_PASSWORD=s">>

(***************************************************************************)
(* C11  For a worker with no tasks of its own whose build directory no     *)
(* earlier worker of the list wrote: with horizon and scheduler both       *)
(* enabled the directory holds exactly the two records laravel-horizon     *)
(* and laravel-scheduler, each with an empty dependencies file; with a     *)
(* flag disabled the record of that flag is absent.                        *)
(***************************************************************************)
FreshDir ==
  \A j \in 1..(idx - 2) :
    workerBuildPath(args.workers.list[j], j - 1) # workerBuildPath(LastWorker, idx - 2)

C11_BuiltinRecords ==
  (WorkerWritten /\ LastWorker.tasks = EmptyObject /\ FreshDir)
  => /\ (Truthy(LastWorker.horizon) /\ Truthy(LastWorker.scheduler))
        => /\ DOMAIN LastWorkerDir.records = {"laravel-horizon", "laravel-scheduler"}
           /\ \A n \in DOMAIN LastWorkerDir.records :
                LastWorkerDir.records[n].dependencies = ""
     /\ ~Truthy(LastWorker.horizon) => "laravel-horizon" \notin DOMAIN LastWorkerDir.records
     /\ ~Truthy(LastWorker.scheduler)
        => "laravel-scheduler" \notin DOMAIN LastWorkerDir.records

C11_Witness ==
  /\ WorkerWritten
  /\ LastWorker.tasks = EmptyObject
  /\ FreshDir
  /\ Truthy(LastWorker.horizon)
  /\ Truthy(LastWorker.scheduler)
  /\ DOMAIN LastWorkerDir.records = {"laravel-horizon", "laravel-scheduler"}

(***************************************************************************)
(* C12  Dependency names pass through: for every task the worker declares, *)
(* a record is written whose dependencies file is exactly the declared     *)
(* dependency names, in declared order, joined by newlines (empty when     *)
(* there are none), names of no declared task included.                    *)
(***************************************************************************)
DependencyText(names) ==
  IF Len(names) = 0 THEN ""
  ELSE IF Len(names) = 1 THEN names[1]
  ELSE IF Len(names) = 2 THEN names[1] \o "\n" \o names[2]
  ELSE Join(names, "\n")

EnabledBuiltin(workerConfig, taskName) ==
  \/ taskName = "laravel-horizon" /\ Truthy(workerConfig.horizon)
  \/ taskName = "laravel-scheduler" /\ Truthy(workerConfig.scheduler)

TaskNames(workerConfig) ==
  Keys(workerConfig.tasks)
    \cup {n \in {"laravel-horizon", "laravel-scheduler"} : EnabledBuiltin(workerConfig, n)}

TaskCommand(workerConfig, taskName) ==
  IF EnabledBuiltin(workerConfig, taskName) THEN BuiltinCommand(taskName)
  ELSE Get(workerConfig.tasks, taskName).command

C13_RecordAndMarkerPerTask ==
  WorkerWritten
  => /\ \A n \in TaskNames(LastWorker) :
          /\ n \in DOMAIN LastWorkerDir.records
          /\ DOMAIN LastWorkerDir.records[n] = {"script", "run", "type", "dependencies"}
          /\ LastWorkerDir.records[n].script
               = "#!/command/with-contenv bash\ncd /var/www/html\n"
                   \o TaskCommand(LastWorker, n)
          /\ LastWorkerDir.records[n].run
               = "#!/command/execlineb -P\n/etc/s6-overlay/s6-rc.d/" \o n \o "/script"
          /\ LastWorkerDir.records[n].type = "longrun"
          /\ n \in LastWorkerDir.markers
     /\ DOMAIN LastWorkerDir.records = LastWorkerDir.markers

C13_Witness ==
  /\ WorkerWritten
  /\ TaskNames(LastWorker) = {"laravel-horizon", "laravel-scheduler", "reports"}
  /\ LastWorkerDir.markers = {"laravel-horizon", "laravel-scheduler", "reports"}
  /\ LastWorkerDir.records["reports"].script
       = "#!/command/with-contenv bash\ncd /var/www/html\nphp artisan reports:listen"

(***************************************************************************)
(* C14  The service of the worker at 0-based position index is named       *)
(* <component>-<worker.name> when the worker has a name and                *)
(* <component>-worker-<index + 1> otherwise, and its build path is         *)
(* worker-<the same worker name> under the plugin's build directory.       *)
(***************************************************************************)
Position == <<"1", "2", "3", "4">>

\* idx - 1 is the 1-based position of the worker written last
ExpectedWorkerName ==
  IF LastWorker.name # Undefined THEN LastWorker.name ELSE "worker-" \o Position[idx - 1]

LastService == services[Len(services)]

C15_UniqueWorkerNames ==
  args.workers.declared
  => /\ \A i, j \in 1..Len(services) : i # j => services[i].name # services[j].name
     /\ Cardinality(DOMAIN workerFiles) = idx - 1

(***************************************************************************)
(* C16  The default public ports of the web service are 80/http to         *)
(* 8080/http always, 443/https to 8080/http exactly when a domain is       *)
(* configured (as a string or as an object), and no other mapping; they    *)
(* are used only when the operator supplied no loadBalancer of their own,  *)
(* and no worker service gets them.                                        *)
(***************************************************************************)
WebAdded == args.web.declared /\ pc \in {"workers", "done"}

WebService == services[1]

HttpMapping == [listen |-> "80/http", forward |-> "8080/http"]

HttpsMapping == [listen |-> "443/https", forward |-> "8080/http"]

C16_DefaultPublicPorts ==
  WebAdded
  => /\ WebService.name = "MyLaravelApp-Web"
     /\ WebService.loadBalancer.custom = args.web.loadBalancer
     /\ IF args.web.loadBalancer
        THEN WebService.loadBalancer.ports = << >>
        ELSE LET ports == WebService.loadBalancer.ports
             IN /\ HttpMapping \in Range(ports)
                /\ HttpsMapping \in Range(ports) <=> args.web.domain.form # Undefined
                /\ Range(ports) \subseteq {HttpMapping, HttpsMapping}
                /\ Len(ports) = Cardinality(Range(ports))
     /\ \A i \in 2..Len(services) : services[i].loadBalancer.ports = << >>

C16_Witness ==
  /\ WebAdded
  /\ args.web.domain.form = "object"
  /\ ~args.web.loadBalancer
  /\ WebService.loadBalancer.ports = <<HttpMapping, HttpsMapping>>

(***************************************************************************)
(* C17  findClusterArn without a cluster override, once ListClusters has   *)
(* answered: with the hyphens of the one declared component name removed,  *)
(* the cluster returned is one of the listed clusters whose trailing ARN   *)
(* segment contains both the stage and that name; when no listed cluster   *)
(* is such (or none is listed) the command exits with status 1 and no      *)
(* cluster is returned.                                                    *)
(***************************************************************************)
NoOverride == options.cluster = << >>

\* the awaited call sent last was rejected
RejectedCall(name) == cliPc = "catch" /\ calls[Len(calls)] = name

ClustersListed ==
  /\ "ListClustersCommand" \in Range(calls)
  /\ cliPc # "ListClusters"
  /\ ~RejectedCall("ListClustersCommand")

FoundConfig ==
  IF cwd["sst.config.ts"].exists THEN cwd["sst.config.ts"] ELSE cwd["sst.config.js"]

DeclaredComponents ==
  {i \in 1..Len(FoundConfig.statements) : FoundConfig.statements[i].ctor = "LaravelService"}

\* the component names of the inputs with their hyphens removed
Unhyphenated(name) == IF name = MyApp THEN <<"m", "y", "a", "p", "p">> ELSE name

TrailingSegment(arn) == SubSeq(arn, Len(ArnPrefix) + 1, Len(arn))

EligibleClusters ==
  LET name == Unhyphenated(FoundConfig.statements[CHOOSE i \in DeclaredComponents : TRUE].name)
  IN {arn \in Range(ecs.clusterArns) :
        /\ Includes(TrailingSegment(arn), options.stage)
        /\ Includes(TrailingSegment(arn), name)}

C17_ClusterAmongEligible ==
  (NoOverride /\ ClustersListed)
  => IF EligibleClusters = {}
     THEN cliPc = "process.exit(1)" /\ clusterArn = << >>
     ELSE clusterArn \in EligibleClusters

C17_Witness ==
  /\ NoOverride
  /\ ClustersListed
  /\ FoundConfig.statements[CHOOSE i \in DeclaredComponents : TRUE].name = MyApp
  /\ ecs.clusterArns = <<ClusterArn(StageDev, <<"m", "y", "a", "p", "p">>),
                         ClusterArn(StageProd, <<"m", "y", "a", "p", "p">>)>>
  /\ clusterArn = ClusterArn(StageProd, <<"m", "y", "a", "p", "p">>)

(***************************************************************************)
(* C18  Once findClusterArn is over: without a cluster override, when the  *)
(* working directory has no config file or the config file declares no     *)
(* component or more than one, the command has exited with status 1, no    *)
(* cluster was chosen and ListClusters was never sent; with a cluster      *)
(* override, the override itself is the cluster, and neither a config file *)
(* was looked for or read nor ListClusters sent.                           *)
(***************************************************************************)
FindClusterArnOver == cliPc \notin {"idle", "action", "findClusterArn"} /\ options.stage # << >>

C18_NoGuessNoLookup ==
  /\ (FindClusterArnOver /\ NoOverride /\ Cardinality(DeclaredComponents) # 1)
     => /\ cliPc = "process.exit(1)"
        /\ clusterArn = << >>
        /\ "ListClustersCommand" \notin Range(calls)
  /\ (FindClusterArnOver /\ ~NoOverride)
     => /\ clusterArn = options.cluster
        /\ Range(calls) \cap {"existsSync sst.config.ts", "existsSync sst.config.js",
                            "readFileSync sst.config.ts", "readFileSync sst.config.js",
                            "ListClustersCommand"} = {}

C18_Witness ==
  /\ NoOverride
  /\ Cardinality(DeclaredComponents) = 2
  /\ cliPc = "process.exit(1)"
  /\ calls = <<"existsSync sst.config.ts", "readFileSync sst.config.ts">>

(***************************************************************************)
(* C19  findTask with a service hint h matches a task when the name of its *)
(* first container contains "-" followed by h ("-web" for web, "-worker"   *)
(* for worker), letter case ignored.  A task returned without the          *)
(* interactive selection is one of the running tasks and matches the       *)
(* hint, and with a hint the selection is shown only when no running task  *)
(* matches it.                                                             *)
(***************************************************************************)
\* W is the only capital letter in the container names and hints above
Lowered(s) == [i \in 1..Len(s) |-> IF s[i] = "W" THEN "w" ELSE s[i]]

FirstContainerName(task) ==
  IF task.containers = << >> THEN << >> ELSE task.containers[1].name

HintMatches(task) ==
  Includes(Lowered(FirstContainerName(task)), <<"-">> \o Lowered(options.service))

SelectionShown == "select" \in Range(calls)

C19_ReturnedTaskMatchesHint ==
  /\ (cliPc = "returned" /\ ~SelectionShown)
     => /\ options.service # << >>
        /\ matchingTask \in Range(ecs.tasks)
        /\ HintMatches(matchingTask)
  /\ (options.service # << >> /\ SelectionShown)
     => \A task \in Range(ecs.tasks) : ~HintMatches(task)

C19_Witness ==
  /\ cliPc = "returned"
  /\ ~SelectionShown
  /\ options.service = <<"w", "e", "b">>
  /\ Len(ecs.tasks) = 2
  /\ ~HintMatches(ecs.tasks[1])
  /\ matchingTask = WebTask

DescribeTasksAnswered == cliPc \in {"returned", "select"}

SeveralMatch ==
  /\ options.service # << >>
  /\ Cardinality({task \in Range(ecs.tasks) : HintMatches(task)}) > 1

TasksDescribed ==
  /\ "DescribeTasksCommand" \in Range(calls)
  /\ cliPc # "DescribeTasks"
  /\ ~RejectedCall("DescribeTasksCommand")

NothingMatches ==
  options.service = << >> \/ \A task \in Range(ecs.tasks) : ~HintMatches(task)

TasksListed == "ListTasksCommand" \in Range(calls) /\ cliPc # "ListTasks"

C22_NoRunningTasks ==
  ecs.tasks = << >>
  => /\ matchingTask = NoTask
     /\ "DescribeTasksCommand" \notin Range(calls)
     /\ ~SelectionShown
     /\ TasksListed => cliPc \in {"process.exit(1)", "catch"}

C22_Witness ==
  /\ ecs.tasks = << >>
  /\ calls = <<"ListTasksCommand">>
  /\ cliPc = "process.exit(1)"

(***************************************************************************)
(* C23  No partial success in ssh and logs.  The aws child process is      *)
(* spawned, once, only when a stage was given, a cluster was resolved and  *)
(* one of the running tasks was resolved and, for logs, the task           *)
(* definition uses the awslogs driver with a log group.  When the stage is *)
(* missing, the cluster cannot be resolved (no config file, no component   *)
(* or several, no listed cluster that fits), no task is running, the log   *)
(* driver is unsupported or an awaited call was rejected, nothing is       *)
(* spawned and the command can only end in a non-zero exit.                *)
(***************************************************************************)
Spawns == {i \in 1..Len(calls) : calls[i] \in {"spawn aws ecs execute-command",
                                                "spawn aws logs tail"}}

ClusterUnresolvable ==
  /\ NoOverride
  /\ \/ Cardinality(DeclaredComponents) # 1
     \/ EligibleClusters = {}

LogsUnsupported ==
  /\ cliCommand = "logs"
  /\ \/ taskDef.arn = << >>
     \/ taskDef.logDriver # "awslogs"
     \/ taskDef.logGroup = << >>

ResolutionFails ==
  \/ options.stage = << >>
  \/ ClusterUnresolvable
  \/ ecs.tasks = << >>
  \/ LogsUnsupported
  \/ cliPc = "catch"

C23_SpawnOnlyWhenResolved ==
  cliPc # "idle"
  => /\ Spawns # {}
        => /\ Cardinality(Spawns) = 1
           /\ options.stage # << >>
           /\ clusterArn # << >>
           /\ matchingTask \in Range(ecs.tasks)
           /\ calls[Len(calls)] = IF cliCommand = "ssh" THEN "spawn aws ecs execute-command"
                                  ELSE "spawn aws logs tail"
           /\ cliCommand = "logs"
              => (taskDef.arn # << >> /\ taskDef.logDriver = "awslogs"
                    /\ taskDef.logGroup # << >>)
     /\ ResolutionFails
        => /\ Spawns = {}
           /\ cliPc \notin {"spawned", "process.exit(0)", "process.exit(code)"}
           /\ ~(ENABLED NextCli) => cliPc \in {"process.exit(1)", "catch"}

C23_Witness ==
  /\ cliCommand = "logs"
  /\ cliPc = "spawned"
  /\ selection = 1
  /\ calls = <<"ListTasksCommand", "DescribeTasksCommand", "select",
               "DescribeTaskDefinitionCommand", "spawn aws logs tail">>

(***************************************************************************)
(* C24: the services of one plan share the environment and the links.      *)
(***************************************************************************)
\* the resource of every entry of the link list, in the order declared
Unwrapped(links) == [k \in 1..Len(links) |-> links[k].resource]

\* C24: in every plan each service is handed the same environment map
\* (same keys and values, the APP_URL of a string domain included) and the
\* same link list, which is the declared list unwrapped in its order
C24_ServicesShareEnvironment ==
  \A i \in 1..Len(services) :
    /\ services[i].link = Unwrapped(args.link)
    /\ \A j \in 1..Len(services) :
         /\ services[i].environment = services[j].environment
         /\ services[i].link = services[j].link

\* a finished plan with a web service on a string domain, a worker service,
\* declared vars and a link given as an object
C24_Witness ==
  /\ pc = "done"
  /\ Len(services) = 2
  /\ services[1].name = ComponentName \o "-Web"
  /\ Get(services[2].environment, "APP_URL") = "https://app.example.com"
  /\ Has(services[2].environment, "SESSION_DRIVER")
  /\ Len(args.link) = 2
  /\ \E k \in 1..Len(args.link) : IsBinding(args.link[k])
  /\ args.link[1] # args.link[2]

(***************************************************************************)
(* C25: resolving the environment leaves its input as it was.              *)
(***************************************************************************)
\* C25: a step of the constructor that resolves the environment does not
\* change the vars the operator declared, and resolving again afterwards
\* gives the same environment map
C25_ResolutionIsPure ==
  [][ /\ args'.config.environment.vars = args.config.environment.vars
      /\ getEnvironmentVariables(args') = getEnvironmentVariables(args) ]_vars

(***************************************************************************)
(* C26: the overlay file is the source file plus the appended pairs.       *)
(***************************************************************************)
\* the content the overlay starts from: the source file, or an empty file
SourceLines == IF envSrc.exists THEN envSrc.lines ELSE <<"">>

\* the pairs resolved from the links of the plan
ResolvedPairs == resourcesEnvVars(args.link, applySync)

\* the environment file is configured and injection was not turned off
OverlayWritten ==
  /\ pc # "prepareEnvironmentFile"
  /\ args.config.environment.file # Undefined
  /\ args.config.environment.autoInject # "false"

\* C26: after plan generation with an environment file configured the
\* overlay is the source content unchanged, followed by one KEY=value line
\* per resolved pair; appending once more repeats every pair line and keeps
\* what was there, and an empty map appends nothing
C26_OverlayIsAppendOnly ==
  OverlayWritten =>
    /\ overlay.exists
    /\ overlay.lines = SourceLines \o envLines(ResolvedPairs)
    /\ appendEnv(overlay, ResolvedPairs).lines
         = SourceLines \o envLines(ResolvedPairs) \o envLines(ResolvedPairs)
    /\ appendEnv(overlay, EmptyObject) = overlay

\* the same for a plan that turns injection on itself
C26_OverlayWhenInjectionDeclared ==
  (OverlayWritten /\ args.config.environment.autoInject = "true") =>
    /\ overlay.lines = SourceLines \o envLines(ResolvedPairs)
    /\ appendEnv(overlay, ResolvedPairs).lines
         = SourceLines \o envLines(ResolvedPairs) \o envLines(ResolvedPairs)
    /\ appendEnv(overlay, EmptyObject) = overlay

(***************************************************************************)
(* C28: a worker's build directory after several plan generations.         *)
(***************************************************************************)
\* the task names the worker at position i of the latest plan resolves to
PlannedTasks(i) == Keys(resolvedTasks(args.workers.list[i]))

\* the build directory of the worker at position i of the latest plan
BuildDir(i) == dirAt(workerFiles, workerBuildPath(args.workers.list[i], i - 1))

\* C28: after any sequence of plan generations the task records and the
\* autostart markers under a worker's build path are exactly the tasks that
\* worker resolves to in the latest plan
C28_BuildDirReflectsLatestPlan ==
  (pc = "done" /\ args.workers.declared) =>
    \A i \in 1..Len(args.workers.list) :
      /\ DOMAIN BuildDir(i).records = PlannedTasks(i)
      /\ BuildDir(i).markers = PlannedTasks(i)

\* the same for the first plan generation alone
C28_BuildDirReflectsFirstPlan ==
  (pc = "done" /\ args.workers.declared /\ generation = 1) =>
    \A i \in 1..Len(args.workers.list) :
      /\ DOMAIN BuildDir(i).records = PlannedTasks(i)
      /\ BuildDir(i).markers = PlannedTasks(i)

(***************************************************************************)
(* C30: the exception for .sst/laravel in an existing .dockerignore.       *)
(***************************************************************************)
\* how many lines of the file are the exception
Exceptions(lines) == Cardinality({i \in 1..Len(lines) : lines[i] = "!.sst/laravel"})

\* every line the file had at first is still there in its order: the file
\* begins with one of the files a site starts with
OriginalLinesKept ==
  \E original \in DockerIgnores :
    /\ original.exists
    /\ Len(original.lines) <= Len(dockerIgnore.lines)
    /\ SubSeq(dockerIgnore.lines, 1, Len(original.lines)) = original.lines

\* C30: after any number of getImage calls, in one plan generation or in
\* several, an existing .dockerignore holds the line '!.sst/laravel'
\* exactly once (never twice, and once as soon as a service of the plan was
\* given its image) and every line it had at first, in the original order
C30_ExceptionAddedOnce ==
  dockerIgnore.exists =>
    /\ Exceptions(dockerIgnore.lines) <= 1
    /\ services # << >> => Exceptions(dockerIgnore.lines) = 1
    /\ OriginalLinesKept

\* the same for a .dockerignore that ignores .sst itself
C30_ExceptionAddedOnceWhenSstIgnored ==
  (dockerIgnore.exists /\ HasLine(dockerIgnore.lines, ".sst")) =>
    /\ Exceptions(dockerIgnore.lines) <= 1
    /\ services # << >> => Exceptions(dockerIgnore.lines) = 1
    /\ OriginalLinesKept

\* the lines that were there are kept whatever the file held
C30_OriginalLinesKept == dockerIgnore.exists => OriginalLinesKept

(***************************************************************************)
(* C27: install puts the config back.                                      *)
(***************************************************************************)
InstallOver == cliCommand = "install" /\ cliPc \in {"end", "process.exit(1)"}

\* the config sst.config.ts or sst.config.js was before the command ran
\* is at that path again
ConfigBack ==
  /\ backupPath = "sst.config.ts.bkp" => cwd["sst.config.ts"] \in TsConfigs
  /\ backupPath = "sst.config.js.bkp" =>
       /\ cwd["sst.config.js"] \in JsConfigs
       /\ ~existsSync(cwd, "sst.config.ts")

\* C27: when install is over, however the child ended and whether or not
\* the template was there, the config that was renamed is back at its
\* path with its content, no .bkp file remains and no sst.config.ts made
\* from the template is left
C27_InstallRestoresConfig ==
  InstallOver =>
    /\ ConfigBack
    /\ ~existsSync(cwd, "sst.config.ts.bkp")
    /\ ~existsSync(cwd, "sst.config.js.bkp")
    /\ cwd["sst.config.ts"] # InitTemplate

\* the same when the config that was renamed is sst.config.ts
C27_InstallRestoresTsConfig ==
  (InstallOver /\ backupPath # "sst.config.js.bkp") =>
    /\ ConfigBack
    /\ ~existsSync(cwd, "sst.config.ts.bkp")
    /\ ~existsSync(cwd, "sst.config.js.bkp")
    /\ cwd["sst.config.ts"] # InitTemplate

\* the same when `sst install` exited with code 0
C27_InstallRestoresAfterSuccess ==
  (InstallOver /\ cliPc = "end") =>
    /\ ConfigBack
    /\ ~existsSync(cwd, "sst.config.ts.bkp")
    /\ ~existsSync(cwd, "sst.config.js.bkp")
    /\ cwd["sst.config.ts"] # InitTemplate

(***************************************************************************)
(* C29: deploy spawns `sst deploy` after validation only.                  *)
(***************************************************************************)
StageName == IF options.stage = StageProd THEN "prod" ELSE "dev"

\* the file a block names, with the placeholder of the stage filled in
NamedFile(block) ==
  IF block.name = <<".env">> THEN ".env"
  ELSE IF block.name[2] = "${$app.stage}" THEN ".env." \o StageName
  ELSE ".env.${stage}"

\* the environment blocks of the config deploy reads
ConfigBlocks ==
  SelectSeq(cwd[findSstConfig(cwd)].statements, LAMBDA st : st.ctor = "environment")

\* there is no config, or its environment block names a file that is not
\* in the directory
DeployInvalid ==
  \/ \A p \in {"sst.config.ts", "sst.config.js"} : ~cwd[p].exists
  \/ /\ findSstConfig(cwd) # Undefined
     /\ Len(ConfigBlocks) = 1
     /\ ConfigBlocks[1].name # << >>
     /\ ~existsSync(cwd, NamedFile(ConfigBlocks[1]))

====
